---- MODULE Spec2Model ----
(***************************************************************************)
(* The puzzle engine of magibreak (crates/magibreak/src/puzzle.rs):        *)
(* Puzzle (sigils, lines, cursor), Puzzle::input, the orbs' rules, and the *)
(* undo-capable wrapper ActivePuzzle (puzzle, history).                    *)
(***************************************************************************)
EXTENDS Integers, Sequences, FiniteSets, TLC

\* ------------------------------------------------------------------ bounds

\* Puzzle::input is not offered once the live puzzle holds MaxLines lines.
MaxLines == 3

\* The lattice coordinates (SigilCoordinate = Vector2<i32>) the model clicks
\* on and places runes at: a 3 x 2 block, which holds crossing diagonals,
\* three collinear points and segments that share one endpoint.
Coords == {<<0, 0>>, <<1, 0>>, <<2, 0>>, <<0, 1>>, <<1, 1>>, <<2, 1>>}

\* ------------------------------------------------------------ data model

\* enum Orb
Orbs == {"Circle", "Diamond", "Octogon"}

\* enum Rune
Runes == {"Alpha", "Sigma", "Delta", "Phi"}

\* struct Sigil { rune, orb }
Sigil == [rune : Runes, orb : Orbs]

\* struct Line { start, end }
Line == [start : Coords, end : Coords]

\* Vector2 fields
X(c) == c[1]
Y(c) == c[2]

Min(a, b) == IF a < b THEN a ELSE b
Max(a, b) == IF a > b THEN a ELSE b

\* HashMap::get(..).is_some(): the map is a function whose domain is its keys.
HasSigil(sigils, c) == c \in DOMAIN sigils

\* ---------------------------------------------------------------- geometry

\* fn orientation(a, b, c) -> Orientation
orientation(a, b, c) ==
    LET val == (Y(b) - Y(a)) * (X(c) - X(b)) - (X(b) - X(a)) * (Y(c) - Y(b))
    IN  IF val = 0 THEN "Collinear"
        ELSE IF val > 0 THEN "Clockwise"
        ELSE "CounterClockwise"

\* fn on_segment(a, b, c), local to Line::intersects
on_segment(a, b, c) ==
    /\ X(b) <= Max(X(a), X(c))
    /\ X(b) >= Min(X(a), X(c))
    /\ Y(b) <= Max(Y(a), Y(c))
    /\ Y(b) >= Min(Y(a), Y(c))

\* Line::intersects without the early returns for lines that detach by one
\* point or extend in the same direction
intersects_NoDetach(self, other) ==
    LET o1 == orientation(self.start, self.end, other.start)
        o2 == orientation(self.start, self.end, other.end)
        o3 == orientation(other.start, other.end, self.start)
        o4 == orientation(other.start, other.end, self.end)
    IN  \/ (o1 # o2 /\ o3 # o4)
        \/ (o1 = "Collinear" /\ on_segment(self.start, other.start, self.end))
        \/ (o2 = "Collinear" /\ on_segment(self.start, other.end, self.end))
        \/ (o3 = "Collinear" /\ on_segment(other.start, self.start, other.end))
        \/ (o4 = "Collinear" /\ on_segment(other.start, self.end, other.end))

\* Line::intersects with the general case only, the four collinear special
\* cases left out
intersects_GeneralOnly(self, other) ==
    /\ orientation(self.start, self.end, other.start)
          # orientation(self.start, self.end, other.end)
    /\ orientation(other.start, other.end, self.start)
          # orientation(other.start, other.end, self.end)
    /\ orientation(self.start, self.end, other.start) # "Collinear"
    /\ orientation(self.start, self.end, other.end) # "Collinear"
    /\ orientation(other.start, other.end, self.start) # "Collinear"
    /\ orientation(other.start, other.end, self.end) # "Collinear"

\* Line::intersects with the second detach return (o3, o4) left out
intersects_OneSidedDetach(self, other) ==
    LET o1 == orientation(self.start, self.end, other.start)
        o2 == orientation(self.start, self.end, other.end)
        o3 == orientation(other.start, other.end, self.start)
        o4 == orientation(other.start, other.end, self.end)
    IN  IF (o1 = "Collinear") # (o2 = "Collinear") THEN FALSE
        ELSE IF /\ o1 = "Collinear"
                /\ o2 = "Collinear"
                /\ \/ Min(X(other.start), X(other.end)) >= Max(X(self.start), X(self.end))
                   \/ Max(X(other.start), X(other.end)) <= Min(X(self.start), X(self.end))
                /\ \/ Min(Y(other.start), Y(other.end)) >= Max(Y(self.start), Y(self.end))
                   \/ Max(Y(other.start), Y(other.end)) <= Min(Y(self.start), Y(self.end))
        THEN FALSE
        ELSE intersects_NoDetach(self, other)

\* Line::intersects(&self, other)
intersects(self, other) ==
    LET o1 == orientation(self.start, self.end, other.start)
        o2 == orientation(self.start, self.end, other.end)
        o3 == orientation(other.start, other.end, self.start)
        o4 == orientation(other.start, other.end, self.end)
    IN  \* can detatch by one point
        IF \/ (o1 = "Collinear" /\ o2 # "Collinear")
           \/ (o2 = "Collinear" /\ o1 # "Collinear")
        THEN FALSE
        ELSE IF \/ (o3 = "Collinear" /\ o4 # "Collinear")
                \/ (o4 = "Collinear" /\ o3 # "Collinear")
        THEN FALSE
        \* can extend in same direction
        ELSE IF /\ o1 = "Collinear"
                /\ o2 = "Collinear"
                /\ \/ Min(X(other.start), X(other.end)) >= Max(X(self.start), X(self.end))
                   \/ Max(X(other.start), X(other.end)) <= Min(X(self.start), X(self.end))
                /\ \/ Min(Y(other.start), Y(other.end)) >= Max(Y(self.start), Y(self.end))
                   \/ Max(Y(other.start), Y(other.end)) <= Min(Y(self.start), Y(self.end))
        THEN FALSE
        ELSE IF /\ o2 = "Collinear"
                /\ o3 = "Collinear"
                /\ \/ Min(X(self.start), X(self.end)) >= Max(X(other.start), X(other.end))
                   \/ Max(X(self.start), X(self.end)) <= Min(X(other.start), X(other.end))
                /\ \/ Min(Y(self.start), Y(self.end)) >= Max(Y(other.start), Y(other.end))
                   \/ Max(Y(self.start), Y(self.end)) <= Min(Y(other.start), Y(other.end))
        THEN FALSE
        \* general case
        ELSE IF o1 # o2 /\ o3 # o4 THEN TRUE
        \* special cases
        ELSE IF o1 = "Collinear" /\ on_segment(self.start, other.start, self.end) THEN TRUE
        ELSE IF o2 = "Collinear" /\ on_segment(self.start, other.end, self.end) THEN TRUE
        ELSE IF o3 = "Collinear" /\ on_segment(other.start, self.start, other.end) THEN TRUE
        ELSE IF o4 = "Collinear" /\ on_segment(other.start, self.end, other.end) THEN TRUE
        ELSE FALSE

\* --------------------------------------------------------------------- orbs

\* allow_intersections with every orb let through
allow_intersections_All(orb) == TRUE

\* allow_intersections with no orb let through
allow_intersections_None(orb) == FALSE

\* allow_intersections that lets Octogon through as well as Diamond
allow_intersections_WithOctogon(orb) == orb \in {"Diamond", "Octogon"}

\* Orb::allow_intersections(&self)
allow_intersections(orb) == orb = "Diamond"

\* effect that stops at the first line it rewrites (break for continue)
effect_FirstOnly(orb, coordinate, to, lines) ==
    IF orb # "Octogon" THEN lines
    ELSE [i \in 1..Len(lines) |->
            IF lines[i].end = coordinate
               /\ \A j \in 1..(i - 1) : lines[j].end # coordinate
            THEN [lines[i] EXCEPT !.end = to]
            ELSE lines[i]]

\* effect without the `*self != Orb::Octogon` early return
effect_AnyOrb(orb, coordinate, to, lines) ==
    [i \in 1..Len(lines) |->
        IF lines[i].end # coordinate THEN lines[i]
        ELSE [lines[i] EXCEPT !.end = to]]

\* Orb::effect(&self, coordinate, to, lines): the lines after the call
effect(orb, coordinate, to, lines) ==
    IF orb # "Octogon" THEN lines
    ELSE [i \in 1..Len(lines) |->
            IF lines[i].end # coordinate THEN lines[i]
            ELSE [lines[i] EXCEPT !.end = to]]

\* ------------------------------------------------------------------- Puzzle

\* intersects_lines that looks at the newest line only
intersects_lines_LastOnly(p, line) ==
    p.lines # <<>> /\ intersects(p.lines[Len(p.lines)], line)

\* Puzzle::intersects_lines(&self, line)
intersects_lines(p, line) ==
    \E i \in 1..Len(p.lines) : intersects(p.lines[i], line)

\* Puzzle::input that moves the cursor before it finds the target empty
PuzzleInput_MovesCursorOnReject(p, coordinate) ==
    IF coordinate = p.cursor THEN [ret |-> FALSE, puzzle |-> p]
    ELSE IF HasSigil(p.sigils, p.cursor)
    THEN LET cursor_rune == p.sigils[p.cursor]
             line == [start |-> p.cursor, end |-> coordinate]
         IN  IF ~allow_intersections(cursor_rune.orb) /\ intersects_lines(p, line)
             THEN [ret |-> FALSE, puzzle |-> p]
             ELSE IF HasSigil(p.sigils, coordinate)
             THEN [ret |-> TRUE,
                   puzzle |-> [p EXCEPT
                       !.lines = Append(effect(cursor_rune.orb, p.cursor,
                                               coordinate, p.lines), line),
                       !.cursor = coordinate]]
             ELSE [ret |-> FALSE, puzzle |-> [p EXCEPT !.cursor = coordinate]]
    ELSE [ret |-> FALSE, puzzle |-> p]

\* Puzzle::input without the `coordinate == cursor` early return
PuzzleInput_NoSelfCheck(p, coordinate) ==
    IF HasSigil(p.sigils, p.cursor)
    THEN LET cursor_rune == p.sigils[p.cursor]
             line == [start |-> p.cursor, end |-> coordinate]
         IN  IF ~allow_intersections(cursor_rune.orb) /\ intersects_lines(p, line)
             THEN [ret |-> FALSE, puzzle |-> p]
             ELSE IF HasSigil(p.sigils, coordinate)
             THEN [ret |-> TRUE,
                   puzzle |-> [p EXCEPT
                       !.lines = Append(effect(cursor_rune.orb, p.cursor,
                                               coordinate, p.lines), line),
                       !.cursor = coordinate]]
             ELSE [ret |-> FALSE, puzzle |-> p]
    ELSE [ret |-> FALSE, puzzle |-> p]

\* Puzzle::input that appends the line and leaves the cursor where it was
PuzzleInput_KeepsCursor(p, coordinate) ==
    IF coordinate = p.cursor THEN [ret |-> FALSE, puzzle |-> p]
    ELSE IF HasSigil(p.sigils, p.cursor)
    THEN LET cursor_rune == p.sigils[p.cursor]
             line == [start |-> p.cursor, end |-> coordinate]
         IN  IF ~allow_intersections(cursor_rune.orb) /\ intersects_lines(p, line)
             THEN [ret |-> FALSE, puzzle |-> p]
             ELSE IF HasSigil(p.sigils, coordinate)
             THEN [ret |-> TRUE,
                   puzzle |-> [p EXCEPT
                       !.lines = Append(effect(cursor_rune.orb, p.cursor,
                                               coordinate, p.lines), line)]]
             ELSE [ret |-> FALSE, puzzle |-> p]
    ELSE [ret |-> FALSE, puzzle |-> p]

\* Puzzle::input that takes the rune it leaves out of the map
PuzzleInput_ConsumesRune(p, coordinate) ==
    IF coordinate = p.cursor THEN [ret |-> FALSE, puzzle |-> p]
    ELSE IF HasSigil(p.sigils, p.cursor)
    THEN LET cursor_rune == p.sigils[p.cursor]
             line == [start |-> p.cursor, end |-> coordinate]
         IN  IF ~allow_intersections(cursor_rune.orb) /\ intersects_lines(p, line)
             THEN [ret |-> FALSE, puzzle |-> p]
             ELSE IF HasSigil(p.sigils, coordinate)
             THEN [ret |-> TRUE,
                   puzzle |-> [sigils |-> [c \in DOMAIN p.sigils \ {p.cursor} |->
                                              p.sigils[c]],
                               lines |-> Append(effect(cursor_rune.orb, p.cursor,
                                                       coordinate, p.lines), line),
                               cursor |-> coordinate]]
             ELSE [ret |-> FALSE, puzzle |-> p]
    ELSE [ret |-> FALSE, puzzle |-> p]

\* Puzzle::input that does not ask for a rune at the target
PuzzleInput_NoTargetCheck(p, coordinate) ==
    IF coordinate = p.cursor THEN [ret |-> FALSE, puzzle |-> p]
    ELSE IF HasSigil(p.sigils, p.cursor)
    THEN LET cursor_rune == p.sigils[p.cursor]
             line == [start |-> p.cursor, end |-> coordinate]
         IN  IF ~allow_intersections(cursor_rune.orb) /\ intersects_lines(p, line)
             THEN [ret |-> FALSE, puzzle |-> p]
             ELSE [ret |-> TRUE,
                   puzzle |-> [p EXCEPT
                       !.lines = Append(effect(cursor_rune.orb, p.cursor,
                                               coordinate, p.lines), line),
                       !.cursor = coordinate]]
    ELSE [ret |-> FALSE, puzzle |-> p]

\* Puzzle::input that builds the line from the target to the cursor
PuzzleInput_SwappedLine(p, coordinate) ==
    IF coordinate = p.cursor THEN [ret |-> FALSE, puzzle |-> p]
    ELSE IF HasSigil(p.sigils, p.cursor)
    THEN LET cursor_rune == p.sigils[p.cursor]
             line == [start |-> coordinate, end |-> p.cursor]
         IN  IF ~allow_intersections(cursor_rune.orb) /\ intersects_lines(p, line)
             THEN [ret |-> FALSE, puzzle |-> p]
             ELSE IF HasSigil(p.sigils, coordinate)
             THEN [ret |-> TRUE,
                   puzzle |-> [p EXCEPT
                       !.lines = Append(effect(cursor_rune.orb, p.cursor,
                                               coordinate, p.lines), line),
                       !.cursor = coordinate]]
             ELSE [ret |-> FALSE, puzzle |-> p]
    ELSE [ret |-> FALSE, puzzle |-> p]

\* Puzzle::input(&mut self, coordinate) -> bool: the returned flag and the
\* puzzle after the call.
PuzzleInput(p, coordinate) ==
    IF coordinate = p.cursor THEN [ret |-> FALSE, puzzle |-> p]
    ELSE IF HasSigil(p.sigils, p.cursor)
    THEN LET cursor_rune == p.sigils[p.cursor]
             line == [start |-> p.cursor, end |-> coordinate]
         IN  IF ~allow_intersections(cursor_rune.orb) /\ intersects_lines(p, line)
             THEN [ret |-> FALSE, puzzle |-> p]
             ELSE IF HasSigil(p.sigils, coordinate)
             THEN [ret |-> TRUE,
                   puzzle |-> [p EXCEPT
                       !.lines = Append(effect(cursor_rune.orb, p.cursor,
                                               coordinate, p.lines), line),
                       !.cursor = coordinate]]
             ELSE [ret |-> FALSE, puzzle |-> p]
    ELSE [ret |-> FALSE, puzzle |-> p]

\* ------------------------------------------------------------------- levels

RuneSeq == <<"Alpha", "Sigma", "Delta", "Phi">>
OrbSeq == <<"Circle", "Diamond", "Octogon">>

\* a level whose runes all carry the same orb
UniformSigils(o) ==
    [c \in Coords |-> [rune |-> RuneSeq[((X(c) + 3 * Y(c)) % 4) + 1], orb |-> o]]

\* a level that mixes the three orbs and the four runes
MixedSigils ==
    [c \in Coords |-> [rune |-> RuneSeq[((X(c) + 3 * Y(c)) % 4) + 1],
                       orb |-> OrbSeq[((X(c) + 3 * Y(c)) % 3) + 1]]]

\* a level with coordinates that hold no rune
SparseSigils ==
    [c \in {<<0, 0>>, <<1, 0>>, <<1, 1>>} |-> MixedSigils[c]]

\* HashMap::new()
EmptySigils == [c \in {} |-> MixedSigils[c]]

SigilMaps ==
    {UniformSigils(o) : o \in Orbs} \cup {MixedSigils, SparseSigils, EmptySigils}

\* The puzzles a level file can hold and ActivePuzzle::new / load_puzzle receive:
\* fresh levels (no line, any cursor) and levels saved with a line drawn.
Levels ==
    {[sigils |-> s, lines |-> <<>>, cursor |-> c] : s \in SigilMaps, c \in Coords}
    \cup
    {[sigils |-> s, lines |-> <<l>>, cursor |-> <<1, 0>>] :
        s \in {MixedSigils, UniformSigils("Octogon")},
        l \in {[start |-> <<0, 0>>, end |-> <<1, 1>>],
               [start |-> <<0, 1>>, end |-> <<1, 0>>]}}

\* -------------------------------------------------------------------- state

VARIABLES
    puzzle,     \* ActivePuzzle.puzzle
    history,    \* ActivePuzzle.history
    loaded,     \* the puzzle given to the last ActivePuzzle::new / load_puzzle
    past,       \* the clone `past` taken by the last ActivePuzzle::input call
    op,         \* the last call: its name,
    arg,        \*   the coordinate given to it (input only),
    ret,        \*   what it returned (Puzzle::input's flag for input),
    hlen,       \*   and the length of the history it started from
    prev,       \* the call before the last: its name, result and hlen
    sigma_frontier,  \* Rune::active (Sigma): the stack `frontier` of the search
    sigma_passed     \*   and its list `passed`

vars ==
    <<puzzle, history, loaded, past, op, arg, ret, hlen, prev,
      sigma_frontier, sigma_passed>>

NoArg == <<>>
NoPuzzle == <<>>
NoCall == [op |-> "none", ret |-> FALSE, hlen |-> 0]

\* the last call, as the next state's prev
ThisCall == [op |-> op, ret |-> ret, hlen |-> hlen]

\* ActivePuzzle::new(puzzle)
Init ==
    /\ puzzle \in Levels
    /\ history = <<>>
    /\ loaded = puzzle
    /\ past = NoPuzzle
    /\ op = "new"
    /\ arg = NoArg
    /\ ret = FALSE
    /\ hlen = 0
    /\ prev = NoCall
    /\ sigma_frontier = <<>>
    /\ sigma_passed = <<>>

\* load_puzzle without history.clear()
LoadPuzzle_KeepsHistory(p) ==
    /\ puzzle' = p
    /\ history' = history
    /\ loaded' = p
    /\ past' = NoPuzzle
    /\ op' = "load_puzzle"
    /\ arg' = NoArg
    /\ ret' = FALSE
    /\ hlen' = Len(history)
    /\ prev' = ThisCall
    /\ UNCHANGED <<sigma_frontier, sigma_passed>>

\* ActivePuzzle::load_puzzle(&mut self, puzzle)
LoadPuzzle(p) ==
    /\ puzzle' = p
    /\ history' = <<>>
    /\ loaded' = p
    /\ past' = NoPuzzle
    /\ op' = "load_puzzle"
    /\ arg' = NoArg
    /\ ret' = FALSE
    /\ hlen' = Len(history)
    /\ prev' = ThisCall
    /\ UNCHANGED <<sigma_frontier, sigma_passed>>

\* undo that reports an undo whether or not a snapshot was popped
Undo_AlwaysTrue ==
    /\ IF history # <<>>
       THEN /\ puzzle' = history[Len(history)]
            /\ history' = SubSeq(history, 1, Len(history) - 1)
       ELSE UNCHANGED <<puzzle, history>>
    /\ ret' = TRUE
    /\ past' = NoPuzzle
    /\ op' = "undo"
    /\ arg' = NoArg
    /\ hlen' = Len(history)
    /\ prev' = ThisCall
    /\ UNCHANGED <<sigma_frontier, sigma_passed>>
    /\ UNCHANGED loaded

\* undo that takes the oldest snapshot (history.remove(0)) instead of the newest
Undo_PopsOldest ==
    /\ IF history # <<>>
       THEN /\ puzzle' = history[1]
            /\ history' = Tail(history)
            /\ ret' = TRUE
       ELSE /\ UNCHANGED <<puzzle, history>>
            /\ ret' = FALSE
    /\ past' = NoPuzzle
    /\ op' = "undo"
    /\ arg' = NoArg
    /\ hlen' = Len(history)
    /\ prev' = ThisCall
    /\ UNCHANGED <<sigma_frontier, sigma_passed>>
    /\ UNCHANGED loaded

\* undo that reads the newest snapshot (history.last()) without popping it
Undo_PeeksSnapshot ==
    /\ IF history # <<>>
       THEN /\ puzzle' = history[Len(history)]
            /\ history' = history
            /\ ret' = TRUE
       ELSE /\ UNCHANGED <<puzzle, history>>
            /\ ret' = FALSE
    /\ past' = NoPuzzle
    /\ op' = "undo"
    /\ arg' = NoArg
    /\ hlen' = Len(history)
    /\ prev' = ThisCall
    /\ UNCHANGED <<sigma_frontier, sigma_passed>>
    /\ UNCHANGED loaded

\* ActivePuzzle::undo(&mut self) -> bool
Undo ==
    /\ IF history # <<>>
       THEN /\ puzzle' = history[Len(history)]
            /\ history' = SubSeq(history, 1, Len(history) - 1)
            /\ ret' = TRUE
       ELSE /\ UNCHANGED <<puzzle, history>>
            /\ ret' = FALSE
    /\ past' = NoPuzzle
    /\ op' = "undo"
    /\ arg' = NoArg
    /\ hlen' = Len(history)
    /\ prev' = ThisCall
    /\ UNCHANGED <<sigma_frontier, sigma_passed>>
    /\ UNCHANGED loaded

\* input that takes its snapshot after Puzzle::input has run
Input_SnapshotAfter(coordinate) ==
    /\ Len(puzzle.lines) < MaxLines
    /\ LET r == PuzzleInput(puzzle, coordinate)
       IN  /\ past' = puzzle
           /\ puzzle' = r.puzzle
           /\ history' = IF r.ret THEN Append(history, r.puzzle) ELSE history
           /\ ret' = r.ret
    /\ op' = "input"
    /\ arg' = coordinate
    /\ hlen' = Len(history)
    /\ prev' = ThisCall
    /\ UNCHANGED <<sigma_frontier, sigma_passed>>
    /\ UNCHANGED loaded

\* input that pushes its snapshot whatever Puzzle::input returned
Input_AlwaysPush(coordinate) ==
    /\ Len(puzzle.lines) < MaxLines
    /\ LET r == PuzzleInput(puzzle, coordinate)
       IN  /\ past' = puzzle
           /\ puzzle' = r.puzzle
           /\ history' = Append(history, past')
           /\ ret' = r.ret
    /\ op' = "input"
    /\ arg' = coordinate
    /\ hlen' = Len(history)
    /\ prev' = ThisCall
    /\ UNCHANGED <<sigma_frontier, sigma_passed>>
    /\ UNCHANGED loaded

\* ActivePuzzle::input(&mut self, coordinate)
Input(coordinate) ==
    /\ Len(puzzle.lines) < MaxLines
    /\ LET r == PuzzleInput(puzzle, coordinate)
       IN  /\ past' = puzzle
           /\ puzzle' = r.puzzle
           /\ history' = IF r.ret THEN Append(history, past') ELSE history
           /\ ret' = r.ret
    /\ op' = "input"
    /\ arg' = coordinate
    /\ hlen' = Len(history)
    /\ prev' = ThisCall
    /\ UNCHANGED <<sigma_frontier, sigma_passed>>
    /\ UNCHANGED loaded

Next ==
    \/ \E coordinate \in Coords : Input(coordinate)
    \/ Undo
    \/ \E p \in Levels : LoadPuzzle(p)

Spec == Init /\ [][Next]_vars

\* ------------------------------------------------------------------- claims

\* the orb of the rune under p's cursor ("none" when there is no rune)
CursorOrb(p) ==
    IF HasSigil(p.sigils, p.cursor) THEN p.sigils[p.cursor].orb ELSE "none"

\* the line Puzzle::input(c) would draw on p
Candidate(p, c) == [start |-> p.cursor, end |-> c]

Last(seq) == seq[Len(seq)]
Front(seq) == SubSeq(seq, 1, Len(seq) - 1)

\* C1: whenever Puzzle::input returns false, the rune map, the line sequence
\* and the cursor are exactly as they were before the call.
C1_RejectedInputChangesNothing ==
    [][(op' = "input" /\ ret' = FALSE) => puzzle' = puzzle]_vars

\* C1 witness: an input was rejected because the clicked coordinate holds no
\* rune, from a cursor that holds one and with lines already drawn.
C1_Witness ==
    /\ op = "input"
    /\ ret = FALSE
    /\ arg # puzzle.cursor
    /\ HasSigil(puzzle.sigils, puzzle.cursor)
    /\ ~HasSigil(puzzle.sigils, arg)
    /\ ~intersects_lines(puzzle, Candidate(puzzle, arg))
    /\ puzzle.lines # <<>>

\* C2: Puzzle::input(coordinate) returns true exactly when coordinate differs
\* from the cursor, a rune is at the cursor, a rune is at coordinate, and the
\* cursor rune's orb allows intersections or the candidate line intersects no
\* existing line; then the line sequence grows by exactly one element, its new
\* last element is the line old cursor -> coordinate, and the cursor becomes
\* coordinate.
C2_InputSucceedsExactlyWhen ==
    [][op' = "input" =>
        /\ ret' = ( /\ arg' # puzzle.cursor
                    /\ HasSigil(puzzle.sigils, puzzle.cursor)
                    /\ HasSigil(puzzle.sigils, arg')
                    /\ \/ allow_intersections(CursorOrb(puzzle))
                       \/ ~intersects_lines(puzzle, Candidate(puzzle, arg')) )
        /\ ret' => /\ Len(puzzle'.lines) = Len(puzzle.lines) + 1
                   /\ Last(puzzle'.lines) = [start |-> puzzle.cursor, end |-> arg']
                   /\ puzzle'.cursor = arg'
      ]_vars

\* C2 witness: a successful input from a Circle rune onto a puzzle that already
\* holds lines, none of which the new line intersects.
C2_Witness ==
    /\ op = "input"
    /\ ret = TRUE
    /\ CursorOrb(past) = "Circle"
    /\ past.lines # <<>>
    /\ Last(puzzle.lines) = [start |-> past.cursor, end |-> arg]
    /\ puzzle.cursor = arg

\* C3: from a puzzle with no lines, after any inputs and undos, the cursor is
\* the end of the last line, or the initial cursor when there is no line.
C3_CursorIsLastLineEnd ==
    loaded.lines = <<>> =>
        puzzle.cursor = IF puzzle.lines = <<>> THEN loaded.cursor
                        ELSE Last(puzzle.lines).end

\* C3 witness: an undo has brought a puzzle that started without lines back to
\* a state with two lines, the second drawn from an Octogon rune.
C3_Witness ==
    /\ loaded.lines = <<>>
    /\ op = "undo"
    /\ ret = TRUE
    /\ Len(puzzle.lines) = 2
    /\ puzzle.sigils[puzzle.lines[2].start].orb = "Octogon"
    /\ puzzle.cursor = puzzle.lines[2].end

\* C4: after a successful ActivePuzzle::input, the next undo returns true and
\* the live puzzle (rune map, every line's start and end, cursor) equals the
\* puzzle as it was immediately before that input, Octogon redirects included.
C4_UndoRestoresPuzzleBeforeInput ==
    [][(op = "input" /\ ret = TRUE /\ op' = "undo") =>
        (ret' = TRUE /\ puzzle' = past)]_vars

\* C4 witness: an undo has just taken back a successful input that was made
\* from an Octogon rune at which a line ended, so the input had rewritten that
\* line's end.
C4_Witness ==
    /\ op = "undo"
    /\ ret = TRUE
    /\ prev.op = "input"
    /\ prev.ret = TRUE
    /\ CursorOrb(puzzle) = "Octogon"
    /\ \E i \in 1..Len(puzzle.lines) : puzzle.lines[i].end = puzzle.cursor

\* C5: undo on an empty history returns false and leaves the live puzzle and
\* the (empty) history unchanged.
C5_UndoOnEmptyHistory ==
    [][(op' = "undo" /\ history = <<>>) =>
        (ret' = FALSE /\ puzzle' = puzzle /\ history' = <<>>)]_vars

\* C5 witness: a second undo, made right after the undo that emptied the
\* history, has returned false.
C5_Witness ==
    /\ op = "undo"
    /\ ret = FALSE
    /\ hlen = 0
    /\ prev = [op |-> "undo", ret |-> TRUE, hlen |-> 1]
    /\ history = <<>>

\* C6: ActivePuzzle::input pushes exactly one snapshot, the puzzle as it was
\* before the call, when Puzzle::input returns true, and leaves the history
\* unchanged when it returns false.
C6_SnapshotOnlyOnSuccess ==
    [][op' = "input" =>
        history' = IF ret' THEN Append(history, puzzle) ELSE history]_vars

\* C6 witness: an input was rejected while the history held snapshots, and the
\* history is as long as before the call.
C6_Witness ==
    /\ op = "input"
    /\ ret = FALSE
    /\ hlen >= 2
    /\ Len(history) = hlen

\* the history holds, oldest first, the puzzles before each successful input
\* made since the load: it starts at the loaded puzzle and each snapshot leads
\* to the next (the last one to the live puzzle) by one successful Puzzle::input
HistoryIsPath ==
    /\ history = <<>> => puzzle = loaded
    /\ history # <<>> => history[1] = loaded
    /\ \A i \in 1..Len(history) :
          LET nxt == IF i < Len(history) THEN history[i + 1] ELSE puzzle
          IN  \E c \in Coords :
                 PuzzleInput(history[i], c) = [ret |-> TRUE, puzzle |-> nxt]

\* C7: after n successful inputs (with any rejected inputs between them) on a
\* fresh ActivePuzzle, n undos each return true and visit the earlier puzzles
\* in reverse order down to the initial puzzle, and one more undo returns
\* false: every undo on a non-empty history pops exactly the newest snapshot,
\* and the snapshots are the path from the loaded puzzle.
C7_UndoWalksBackToInitial ==
    /\ []HistoryIsPath
    /\ [][op' = "undo" =>
            IF history # <<>>
            THEN /\ ret' = TRUE
                 /\ puzzle' = Last(history)
                 /\ history' = Front(history)
            ELSE /\ ret' = FALSE
                 /\ history' = <<>>]_vars

\* C7 witness: three successful inputs were made and two undos in a row have
\* walked back from the third snapshot to the second.
C7_Witness ==
    /\ op = "undo"
    /\ ret = TRUE
    /\ hlen = 2
    /\ prev = [op |-> "undo", ret |-> TRUE, hlen |-> 3]
    /\ Len(history) = 1
    /\ history[1] = loaded

\* C8: load_puzzle(p) makes p the live puzzle and empties the history whatever
\* its length; an undo right after a load returns false and the live puzzle
\* stays p; the oldest snapshot is never older than the load.
C8_LoadClearsHistory ==
    /\ [](history # <<>> => history[1] = loaded)
    /\ [][/\ op' = "load_puzzle" => (puzzle' = loaded' /\ history' = <<>>)
          /\ (op = "load_puzzle" /\ op' = "undo") =>
                (ret' = FALSE /\ puzzle' = loaded /\ history' = <<>>)]_vars

\* C8 witness: a load was made over a history of two or more snapshots and the
\* undo right after it has returned false, the loaded puzzle still live.
C8_Witness ==
    /\ op = "undo"
    /\ ret = FALSE
    /\ prev.op = "load_puzzle"
    /\ prev.hlen >= 2
    /\ puzzle = loaded
    /\ history = <<>>

\* C9: when the rune at the cursor has a Circle orb and the candidate line
\* intersects at least one existing line, Puzzle::input returns false and
\* appends nothing, even if the clicked coordinate holds a rune.
C9_CircleBlocksCrossing ==
    [][(/\ op' = "input"
        /\ CursorOrb(puzzle) = "Circle"
        /\ intersects_lines(puzzle, Candidate(puzzle, arg'))) =>
        (ret' = FALSE /\ puzzle'.lines = puzzle.lines)]_vars

\* C9 witness: an input from a Circle rune to another rune was rejected and
\* its line intersects a drawn line.
C9_Witness ==
    /\ op = "input"
    /\ ret = FALSE
    /\ CursorOrb(past) = "Circle"
    /\ arg # past.cursor
    /\ HasSigil(past.sigils, arg)
    /\ intersects_lines(past, Candidate(past, arg))

\* C10: when the rune at the cursor has a Diamond orb and the clicked
\* coordinate holds a rune and differs from the cursor, Puzzle::input succeeds
\* whether or not the candidate line intersects existing lines: the line is
\* appended and the cursor moves to the clicked coordinate.
C10_DiamondAllowsCrossing ==
    [][(/\ op' = "input"
        /\ CursorOrb(puzzle) = "Diamond"
        /\ HasSigil(puzzle.sigils, arg')
        /\ arg' # puzzle.cursor) =>
        (/\ ret' = TRUE
         /\ puzzle'.lines = Append(puzzle.lines, Candidate(puzzle, arg'))
         /\ puzzle'.cursor = arg')]_vars

\* C10 witness: an input from a Diamond rune succeeded although its line
\* intersects a line drawn before.
C10_Witness ==
    /\ op = "input"
    /\ ret = TRUE
    /\ CursorOrb(past) = "Diamond"
    /\ intersects_lines(past, Candidate(past, arg))
    /\ Last(puzzle.lines) = Candidate(past, arg)
    /\ puzzle.cursor = arg

\* C11: the Octogon orb is non-blocking: from an Octogon rune, an input to
\* another coordinate that holds a rune succeeds even if the candidate line
\* intersects an existing line.
C11_OctogonNeverBlocks ==
    [][(/\ op' = "input"
        /\ CursorOrb(puzzle) = "Octogon"
        /\ HasSigil(puzzle.sigils, arg')
        /\ arg' # puzzle.cursor) =>
        ret' = TRUE]_vars

\* C12: on a successful input from an Octogon rune at c to t, every earlier
\* line that ended at c ends at t, every other earlier line is unchanged, no
\* start changes, the line c -> t is appended after the rewrite, and no line
\* ends at c afterwards.
C12_OctogonRedirect ==
    [][(op' = "input" /\ ret' = TRUE /\ CursorOrb(puzzle) = "Octogon") =>
        LET c == puzzle.cursor
            t == arg'
            old == puzzle.lines
            new == puzzle'.lines
        IN  /\ Len(new) = Len(old) + 1
            /\ \A i \in 1..Len(old) :
                  /\ new[i].start = old[i].start
                  /\ new[i].end = IF old[i].end = c THEN t ELSE old[i].end
            /\ new[Len(new)] = [start |-> c, end |-> t]
            /\ \A i \in 1..Len(new) : new[i].end # c]_vars

\* C12 witness: a successful input from an Octogon rune where two earlier
\* lines ended at the cursor and now both end at the clicked coordinate.
C12_Witness ==
    /\ op = "input"
    /\ ret = TRUE
    /\ CursorOrb(past) = "Octogon"
    /\ Len(past.lines) = 2
    /\ past.lines[1].end = past.cursor
    /\ past.lines[2].end = past.cursor
    /\ puzzle.lines[1].end = arg
    /\ puzzle.lines[2].end = arg

\* C13: on a successful input from a Circle or Diamond rune the earlier lines
\* keep their start, end and position (the old sequence is a prefix of the new
\* one), and no input, of any orb, makes the line sequence shorter.
C13_LinesAppendOnly ==
    [][op' = "input" =>
        /\ Len(puzzle'.lines) >= Len(puzzle.lines)
        /\ (ret' = TRUE /\ CursorOrb(puzzle) \in {"Circle", "Diamond"}) =>
              SubSeq(puzzle'.lines, 1, Len(puzzle.lines)) = puzzle.lines]_vars

\* C13 witness: a successful input from a Circle rune at which an earlier line
\* ended (the line an Octogon would have redirected), that line unchanged.
C13_Witness ==
    /\ op = "input"
    /\ ret = TRUE
    /\ CursorOrb(past) = "Circle"
    /\ \E i \in 1..Len(past.lines) :
          past.lines[i].end = past.cursor /\ puzzle.lines[i] = past.lines[i]

\* C14: the rune map is never changed by input or undo: the live puzzle and
\* every snapshot hold the loaded puzzle's rune map.
C14_RuneMapUnchanged ==
    /\ puzzle.sigils = loaded.sigils
    /\ \A i \in 1..Len(history) : history[i].sigils = loaded.sigils

\* C14 witness: after successful inputs and an undo on a level with runes, the
\* live puzzle still holds lines and the loaded rune map.
C14_Witness ==
    /\ op = "undo"
    /\ ret = TRUE
    /\ puzzle.lines # <<>>
    /\ history # <<>>
    /\ DOMAIN loaded.sigils # {}
    /\ puzzle.sigils = loaded.sigils

\* ------------------------------------------------------ level persistence
\* excali_io::SerializeKey for Vector2<T> and the SerialablePuzzle conversions.
\* A String is a sequence of one-character strings.

\* the most runes a saved puzzle holds
MaxRunes == 2

\* the longest key of a persisted rune map that was not written by as_key
MaxKeyLen == 5

DigitChars == <<"0", "1", "2", "3", "4", "5", "6", "7", "8", "9">>

\* <u32 as ToString>::to_string
RECURSIVE NatToString(_)
NatToString(n) ==
    IF n < 10 THEN <<DigitChars[n + 1]>>
    ELSE NatToString(n \div 10) \o <<DigitChars[(n % 10) + 1]>>

\* <i32 as ToString>::to_string
IntToString(n) == IF n < 0 THEN <<"-">> \o NatToString(-n) ELSE NatToString(n)

IsDigit(ch) == \E d \in 1..10 : DigitChars[d] = ch

DigitValue(ch) == (CHOOSE d \in 1..10 : DigitChars[d] = ch) - 1

RECURSIVE DigitsValue(_)
DigitsValue(str) ==
    IF str = <<>> THEN 0
    ELSE 10 * DigitsValue(SubSeq(str, 1, Len(str) - 1)) + DigitValue(str[Len(str)])

\* <i32 as FromStr>::from_str: an optional sign and one or more digits (the keys
\* of the model are too short to leave the range of i32)
ParseI32(str) ==
    LET signed == str # <<>> /\ str[1] \in {"+", "-"}
        digits == IF signed THEN Tail(str) ELSE str
    IN  IF digits = <<>> \/ \E i \in 1..Len(digits) : ~IsDigit(digits[i])
        THEN [ok |-> FALSE, err |-> "FromStr"]
        ELSE [ok |-> TRUE,
              value |-> IF signed /\ str[1] = "-" THEN -DigitsValue(digits)
                        ELSE DigitsValue(digits)]

\* str::split(' '): the pieces between the spaces, empty pieces included
RECURSIVE Split(_)
Split(str) ==
    IF \A i \in 1..Len(str) : str[i] # " " THEN <<str>>
    ELSE LET i == CHOOSE j \in 1..Len(str) :
                     str[j] = " " /\ \A k \in 1..(j - 1) : str[k] # " "
         IN  <<SubSeq(str, 1, i - 1)>> \o Split(SubSeq(str, i + 1, Len(str)))

\* as_key that joins the components without the space
as_key_NoSeparator(v) == IntToString(v[1]) \o IntToString(v[2])

\* SerializeKey::as_key for Vector2<i32>
as_key(v) ==
    LET RECURSIVE Join(_)
        Join(i) ==
            IF i > Len(v) THEN <<>>
            ELSE IF i < Len(v) THEN IntToString(v[i]) \o <<" ">> \o Join(i + 1)
            ELSE IntToString(v[i])
    IN  Join(1)

\* SerializeKey::from_key for Vector2<i32>
from_key(key) ==
    LET pieces == Split(key)
        RECURSIVE Values(_)
        \* the values pushed, or the first parse error
        Values(i) ==
            IF i > Len(pieces) THEN [ok |-> TRUE, value |-> <<>>]
            ELSE LET first == ParseI32(pieces[i])
                 IN  IF ~first.ok THEN first
                     ELSE LET rest == Values(i + 1)
                          IN  IF ~rest.ok THEN rest
                              ELSE [ok |-> TRUE,
                                    value |-> <<first.value>> \o rest.value]
        values == Values(1)
    IN  IF ~values.ok THEN [ok |-> FALSE, err |-> "FromStr"]
        ELSE IF Len(values.value) = 2 THEN [ok |-> TRUE, value |-> values.value]
        ELSE [ok |-> FALSE, err |-> "SliceDoesntFit"]

\* SerializeKey::serialize_hash_map (two keys with one string would leave one
\* entry, whichever was inserted last)
serialize_hash_map(hash_map) ==
    [key \in {as_key(k) : k \in DOMAIN hash_map} |->
        hash_map[CHOOSE k \in DOMAIN hash_map : as_key(k) = key]]

\* deserialize_hash_map that drops the entries whose key does not parse
deserialize_hash_map_SkipsBadKeys(hash_map) ==
    LET good == {key \in DOMAIN hash_map : from_key(key).ok}
    IN  {[ok |-> TRUE,
          value |-> [k \in {from_key(key).value : key \in good} |->
                       hash_map[CHOOSE key \in good : from_key(key).value = k]]]}

\* SerializeKey::deserialize_hash_map: the results it can give. The map is
\* walked in the HashMap's order, which is not fixed: the first key that fails
\* ends the walk with its error, and of two keys that parse to one coordinate
\* the later one stays.
deserialize_hash_map(hash_map) ==
    LET bad == {key \in DOMAIN hash_map : ~from_key(key).ok}
        keys == {from_key(key).value : key \in DOMAIN hash_map}
    IN  IF bad # {} THEN {from_key(key) : key \in bad}
        ELSE {[ok |-> TRUE, value |-> m] :
                 m \in {f \in [keys -> {hash_map[key] : key \in DOMAIN hash_map}] :
                          \A k \in keys : \E key \in DOMAIN hash_map :
                             from_key(key).value = k /\ f[k] = hash_map[key]}}

\* impl From<Puzzle> for SerialablePuzzle
SerialablePuzzleFrom(value) ==
    [sigils |-> serialize_hash_map(value.sigils),
     lines |-> value.lines,
     cursor |-> value.cursor]

\* impl TryFrom<SerialablePuzzle> for Puzzle: the results it can give
PuzzleTryFrom(value) ==
    {IF r.ok
     THEN [ok |-> TRUE,
           value |-> [sigils |-> r.value, lines |-> value.lines,
                      cursor |-> value.cursor]]
     ELSE r : r \in deserialize_hash_map(value.sigils)}

\* the coordinate components of saved puzzles: negative, zero, positive, with
\* one and two digits
KeyScalars == {-12, -1, 0, 1, 10}

KeyCoords == KeyScalars \X KeyScalars

SavedSigil(c) ==
    [rune |-> RuneSeq[((X(c) + 3 * Y(c)) % 4) + 1],
     orb |-> OrbSeq[((X(c) + 3 * Y(c)) % 3) + 1]]

\* the sets of at most n coordinates
RECURSIVE CoordSetsUpTo(_)
CoordSetsUpTo(n) ==
    IF n = 0 THEN {{}}
    ELSE LET smaller == CoordSetsUpTo(n - 1)
         IN  smaller \cup {d \cup {c} : d \in smaller, c \in KeyCoords}

\* Puzzle::default()
DefaultPuzzle == [sigils |-> EmptySigils, lines |-> <<>>, cursor |-> <<0, 0>>]

\* the puzzles the level editor saves: up to MaxRunes runes anywhere, with or
\* without lines, the cursor at the origin or elsewhere
SavedPuzzles ==
    {[sigils |-> [c \in d |-> SavedSigil(c)], lines |-> ls, cursor |-> cur] :
        d \in CoordSetsUpTo(MaxRunes),
        ls \in {<<>>,
                <<[start |-> <<-1, 10>>, end |-> <<0, -12>>],
                  [start |-> <<0, -12>>, end |-> <<-1, 10>>]>>},
        cur \in {<<0, 0>>, <<-12, 10>>}}

KeyAlphabet == {"1", "-", " ", "x"}

\* the strings over KeyAlphabet of at most n characters
RECURSIVE StringsUpTo(_)
StringsUpTo(n) ==
    IF n = 0 THEN {<<>>}
    ELSE LET shorter == StringsUpTo(n - 1)
         IN  shorter \cup {Append(str, ch) : str \in shorter, ch \in KeyAlphabet}

\* the rune maps a level file can hold (toml::from_str takes any string as a
\* key): one key of any shape, alone, beside a key as_key writes, or beside a
\* key with one component
PersistedLevels ==
    {[sigils |-> [key \in {k} \cup others |-> SavedSigil(<<Len(key), 0>>)],
      lines |-> <<>>, cursor |-> <<0, 0>>] :
        k \in StringsUpTo(MaxKeyLen),
        others \in {{}, {as_key(<<0, 0>>)}, {<<"1">>}}}

\* the level editor holding a puzzle, before it saves or reads anything
InitSerial ==
    /\ puzzle \in SavedPuzzles
    /\ history = <<>>
    /\ loaded = puzzle
    /\ past = NoPuzzle
    /\ op = "new"
    /\ arg = NoArg
    /\ ret = FALSE
    /\ hlen = 0
    /\ prev = NoCall
    /\ sigma_frontier = <<>>
    /\ sigma_passed = <<>>

\* LevelEditor::save_level: SerialablePuzzle::from(self.loaded_puzzle.clone())
SaveLevel ==
    /\ op = "new"
    /\ op' = "serialize"
    /\ arg' = puzzle
    /\ ret' = SerialablePuzzleFrom(puzzle)
    /\ prev' = ThisCall
    /\ UNCHANGED <<sigma_frontier, sigma_passed>>
    /\ UNCHANGED <<puzzle, history, loaded, past, hlen>>

\* load_puzzle: toml::from_str hands over the SerialablePuzzle of a level file
ReadLevel ==
    /\ op = "new"
    /\ puzzle = DefaultPuzzle
    /\ \E serialable_puzzle \in PersistedLevels : ret' = serialable_puzzle
    /\ op' = "read_level"
    /\ arg' = NoArg
    /\ prev' = ThisCall
    /\ UNCHANGED <<sigma_frontier, sigma_passed>>
    /\ UNCHANGED <<puzzle, history, loaded, past, hlen>>

\* Puzzle::try_from(serialable_puzzle), on what was just saved or read
TryFrom ==
    /\ op \in {"serialize", "read_level"}
    /\ \E r \in PuzzleTryFrom(ret) : ret' = r
    /\ op' = "try_from"
    /\ arg' = ret
    /\ prev' = ThisCall
    /\ UNCHANGED <<sigma_frontier, sigma_passed>>
    /\ UNCHANGED <<puzzle, history, loaded, past, hlen>>

NextSerial ==
    \/ SaveLevel
    \/ ReadLevel
    \/ TryFrom

SpecSerial == InitSerial /\ [][NextSerial]_vars

\* C15: converting a puzzle to its serializable form and back succeeds for
\* every puzzle (negative coordinates, the empty puzzle) and gives the same
\* rune map, the same lines in the same order and the same cursor; as_key is
\* injective and from_key(as_key(c)) = c on the puzzle's coordinates.
C15_SerializeRoundTrip ==
    /\ (op = "try_from" /\ prev.op = "serialize") =>
          ret = [ok |-> TRUE, value |-> puzzle]
    /\ \A c \in DOMAIN puzzle.sigils :
          /\ from_key(as_key(c)) = [ok |-> TRUE, value |-> c]
          /\ \A d \in DOMAIN puzzle.sigils : as_key(c) = as_key(d) => c = d

\* C15 witness: a puzzle with two runes at negative and two-digit coordinates,
\* two lines and a cursor off the origin came back from the round trip.
C15_Witness ==
    /\ op = "try_from"
    /\ prev.op = "serialize"
    /\ ret.ok
    /\ DOMAIN ret.value.sigils = {<<-12, -1>>, <<-1, 10>>}
    /\ Len(ret.value.lines) = 2
    /\ ret.value.cursor = <<-12, 10>>

\* the key has a piece that is no integer (an optional sign, then digits only)
HasNonIntegerPiece(key) ==
    \E i \in 1..Len(Split(key)) :
        LET piece == Split(key)[i]
            digits == IF piece # <<>> /\ piece[1] \in {"+", "-"}
                      THEN Tail(piece) ELSE piece
        IN  digits = <<>> \/ \E j \in 1..Len(digits) : ~IsDigit(digits[j])

\* the error the claim gives a malformed key ("none" for a well-formed key)
KeyDefect(key) ==
    IF HasNonIntegerPiece(key) THEN "FromStr"
    ELSE IF Len(Split(key)) # 2 THEN "SliceDoesntFit"
    ELSE "none"

\* C16: deserializing a rune map with a malformed key gives no Puzzle but a
\* typed error: FromStr for a key with a piece that is no integer,
\* SliceDoesntFit for a key of integers that are not two; one malformed key
\* fails the whole conversion.
C16_MalformedKeyFails ==
    (op = "try_from"
     /\ \E key \in DOMAIN arg.sigils : KeyDefect(key) # "none") =>
        /\ ret.ok = FALSE
        /\ ret.err \in {KeyDefect(key) : key \in DOMAIN arg.sigils} \ {"none"}

\* C16 witness: a level whose rune map holds a well-formed key and a key of
\* three integers was refused with SliceDoesntFit.
C16_Witness ==
    /\ op = "try_from"
    /\ prev.op = "read_level"
    /\ DOMAIN arg.sigils = {as_key(<<0, 0>>), <<"1", " ", "1", " ", "1">>}
    /\ ret = [ok |-> FALSE, err |-> "SliceDoesntFit"]

\* ------------------------------------------------------- rune predicates

\* the most lines of a puzzle whose runes are evaluated
MaxRuneLines == 3

Abs(n) == IF n < 0 THEN -n ELSE n

\* u32::gcd
RECURSIVE Gcd(_, _)
Gcd(a, b) == IF b = 0 THEN a ELSE Gcd(b, a % b)

\* Line::coordinates with the interior lattice points left out
coordinates_EndpointsOnly(line) ==
    IF line.end = line.start THEN <<line.start>> ELSE <<line.start, line.end>>

\* Line::coordinates without the second component_mul_assign: the step keeps
\* the absolute values of the displacement
coordinates_PositiveStep(line) ==
    IF line.end = line.start THEN <<line.start>>
    ELSE LET slope == <<Abs(X(line.end) - X(line.start)),
                        Abs(Y(line.end) - Y(line.start))>>
             gcd == Gcd(X(slope), Y(slope))
             step == <<X(slope) \div gcd, Y(slope) \div gcd>>
         IN  <<line.start>> \o
             [i \in 1..gcd |->
                 <<X(step) * i + X(line.start), Y(step) * i + Y(line.start)>>]

\* Line::coordinates: all touching coordinates, from start to end
coordinates(line) ==
    IF line.end = line.start THEN <<line.start>>
    ELSE LET slope == <<X(line.end) - X(line.start), Y(line.end) - Y(line.start)>>
             gcd == Gcd(Abs(X(slope)), Abs(Y(slope)))
             step == <<X(slope) \div gcd, Y(slope) \div gcd>>
         IN  <<line.start>> \o
             [i \in 1..gcd |->
                 <<X(step) * i + X(line.start), Y(step) * i + Y(line.start)>>]

Contains(seq, e) == \E i \in 1..Len(seq) : seq[i] = e

\* Line::extends without asking for a rune at the shared coordinate
extends_NoSigil(self, other, sigils) ==
    \E i \in 2..Len(coordinates(self)) :
        Contains(Front(coordinates(other)), coordinates(self)[i])

\* Line::extends: the other line branches or extends from this one at a
\* coordinate that holds a rune (not this line's start, not the other's end)
extends(self, other, sigils) ==
    \E i \in 2..Len(coordinates(self)) :
        /\ HasSigil(sigils, coordinates(self)[i])
        /\ Contains(Front(coordinates(other)), coordinates(self)[i])

\* the search of Sigma looking one line ahead only
SigmaSearch_OneStep(frontier, passed, line, lines) ==
    \/ Contains(frontier, line.start)
    \/ \E i \in 1..Len(lines) :
          Contains(frontier, lines[i].start) /\ lines[i].end = line.start

\* the depth-first search of Sigma: the while loop over the frontier stack
RECURSIVE SigmaSearch(_, _, _, _)
SigmaSearch(frontier, passed, line, lines) ==
    IF frontier = <<>> THEN FALSE
    ELSE LET frontier_coordinate == Last(frontier)
         IN  IF frontier_coordinate = line.start THEN TRUE
             ELSE LET passed_now == Append(passed, frontier_coordinate)
                      next_lines ==
                          SelectSeq(lines,
                              LAMBDA next_line :
                                  /\ next_line.start = frontier_coordinate
                                  /\ ~Contains(passed_now, next_line.end))
                      pushed == [i \in 1..Len(next_lines) |-> next_lines[i].end]
                  IN  SigmaSearch(Front(frontier) \o pushed, passed_now,
                                  line, lines)

\* Rune::active
active(rune, coordinate, lines, sigils) ==
    CASE rune = "Alpha" ->
            \E i \in 1..Len(lines) : Contains(coordinates(lines[i]), coordinate)
      [] rune = "Phi" ->
            ~\E i \in 1..Len(lines) : Contains(coordinates(lines[i]), coordinate)
      [] rune = "Delta" ->
            \E a \in 1..Len(lines), b \in 1..Len(lines), c \in 1..Len(lines) :
                LET line_a == lines[a]
                    line_b == lines[b]
                    line_c == lines[c]
                    direction == orientation(line_a.start, line_a.end, line_b.end)
                IN  /\ extends(line_a, line_b, sigils)
                    /\ extends(line_b, line_c, sigils)
                    /\ extends(line_c, line_a, sigils)
                    /\ direction # "Collinear"
                    /\ orientation(line_a.start, line_a.end, coordinate) = direction
                    /\ orientation(line_b.start, line_b.end, coordinate) = direction
                    /\ orientation(line_c.start, line_c.end, coordinate) = direction
      [] rune = "Sigma" ->
            \E i \in 1..Len(lines) :
                /\ Contains(coordinates(lines[i]), coordinate)
                /\ SigmaSearch(<<lines[i].end>>, <<>>, lines[i], lines)

\* the place of a line in the order the drawn lines are listed in
LineRank(line) ==
    ((X(line.start) + 3 * Y(line.start)) * 9 + X(line.end) + 3 * Y(line.end))

\* the coordinates the drawn lines start and end at: three in a row, so that
\* a line has an interior lattice point, and one off the row
RuneLineEnds == {<<0, 0>>, <<1, 0>>, <<2, 0>>, <<1, 1>>}

\* degenerate lines included
RuneLines == [start : RuneLineEnds, end : RuneLineEnds]

\* the line lists of at most n different lines of a set, each set of lines in
\* one order
RECURSIVE LineListsUpTo(_, _)
LineListsUpTo(lines, n) ==
    IF n = 0 THEN {<<>>}
    ELSE LET shorter == LineListsUpTo(lines, n - 1)
         IN  shorter \cup
             UNION {{Append(ls, line) :
                        line \in {l \in lines :
                                     ls = <<>> \/ LineRank(Last(ls)) < LineRank(l)}} :
                    ls \in {l \in shorter : Len(l) = n - 1}}

\* the puzzles whose runes are drawn: a rune on every coordinate or on some
RunePuzzles ==
    {[sigils |-> MixedSigils, lines |-> ls, cursor |-> <<0, 0>>] :
        ls \in LineListsUpTo(RuneLines, MaxRuneLines)}

\* a puzzle about to be drawn
InitRune ==
    /\ puzzle \in RunePuzzles
    /\ history = <<>>
    /\ loaded = puzzle
    /\ past = NoPuzzle
    /\ op = "new"
    /\ arg = NoArg
    /\ ret = FALSE
    /\ hlen = 0
    /\ prev = NoCall
    /\ sigma_frontier = <<>>
    /\ sigma_passed = <<>>

\* Puzzle::sprite_batches asks rune.active(coordinate, &self.lines,
\* &self.sigils); here one rune is asked at every coordinate
Active(rune) ==
    /\ op = "new"
    /\ op' = "active"
    /\ arg' = rune
    /\ ret' = [coordinate \in Coords |->
                  active(rune, coordinate, puzzle.lines, puzzle.sigils)]
    /\ prev' = ThisCall
    /\ UNCHANGED <<sigma_frontier, sigma_passed>>
    /\ UNCHANGED <<puzzle, history, loaded, past, hlen>>

NextRune == \E rune \in Runes : Active(rune)

SpecRune == InitRune /\ [][NextRune]_vars

\* the lattice points of the closed segment from line.start to line.end
OnSegment(line, c) ==
    /\ orientation(line.start, line.end, c) = "Collinear"
    /\ Min(X(line.start), X(line.end)) <= X(c)
    /\ X(c) <= Max(X(line.start), X(line.end))
    /\ Min(Y(line.start), Y(line.end)) <= Y(c)
    /\ Y(c) <= Max(Y(line.start), Y(line.end))

Touches(line, c) == Contains(coordinates(line), c)

\* C17: Alpha is true at a coordinate exactly when the coordinate is among
\* Line::coordinates() of some line, which are the lattice points of the line,
\* interior ones included; Phi is the negation of Alpha.
C17_AlphaPhiTouch ==
    /\ \A i \in 1..Len(puzzle.lines), c \in Coords :
          Touches(puzzle.lines[i], c) <=> OnSegment(puzzle.lines[i], c)
    /\ \A c \in Coords :
          /\ active("Alpha", c, puzzle.lines, puzzle.sigils)
                <=> \E i \in 1..Len(puzzle.lines) : OnSegment(puzzle.lines[i], c)
          /\ active("Phi", c, puzzle.lines, puzzle.sigils)
                <=> ~active("Alpha", c, puzzle.lines, puzzle.sigils)
    /\ (op = "active" /\ arg = "Alpha") =>
          \A c \in Coords :
              ret[c] <=> \E i \in 1..Len(puzzle.lines) : Touches(puzzle.lines[i], c)
    /\ (op = "active" /\ arg = "Phi") =>
          \A c \in Coords :
              ret[c] <=> ~\E i \in 1..Len(puzzle.lines) : Touches(puzzle.lines[i], c)

\* C17 witness: Alpha was asked with one line from (0,0) to (2,0) drawn among
\* others and is true at the interior point (1,0), false at some other point.
C17_Witness ==
    /\ op = "active"
    /\ arg = "Alpha"
    /\ Len(puzzle.lines) > 1
    /\ \A i \in 1..Len(puzzle.lines) :
          <<1, 0>> \notin {puzzle.lines[i].start, puzzle.lines[i].end}
    /\ ret[<<1, 0>>]
    /\ \E c \in Coords : ~ret[c]

\* the coordinates reached from those of set by following lines start to end
RECURSIVE ReachableFrom(_, _)
ReachableFrom(set, lines) ==
    LET more == set \cup {lines[i].end : i \in {j \in 1..Len(lines) :
                                                   lines[j].start \in set}}
    IN  IF more = set THEN set ELSE ReachableFrom(more, lines)

\* the line is on a directed cycle of lines
OnDirectedCycle(line, lines) == line.start \in ReachableFrom({line.end}, lines)

\* C18: Sigma is true at a coordinate exactly when some line touching it has
\* its start reachable from its end along lines followed start to end; a rune
\* touched by no line, or only by lines on no directed cycle, is inactive.
C18_SigmaDirectedCycle ==
    (op = "active" /\ arg = "Sigma") =>
        \A c \in Coords :
            ret[c] <=> \E i \in 1..Len(puzzle.lines) :
                          /\ Touches(puzzle.lines[i], c)
                          /\ OnDirectedCycle(puzzle.lines[i], puzzle.lines)

\* C18 witness: three different lines close a directed triangle; Sigma is true
\* on its corners and false on a coordinate no line touches.
C18_Witness ==
    /\ op = "active"
    /\ arg = "Sigma"
    /\ Len(puzzle.lines) = 3
    /\ \A i \in 1..3 : puzzle.lines[i].start # puzzle.lines[i].end
    /\ Cardinality({puzzle.lines[i].start : i \in 1..3}) = 3
    /\ \A i \in 1..3 : OnDirectedCycle(puzzle.lines[i], puzzle.lines)
    /\ \E c \in Coords : ~ret[c]
    /\ \A i \in 1..3 : ret[puzzle.lines[i].start]

\* the coordinates the lines of the Delta puzzles start and end at: the
\* corners of a triangle around (1,1) and the ends of two lines crossing there
DeltaLineEnds == {<<0, 0>>, <<2, 1>>, <<1, 2>>, <<1, 0>>, <<0, 1>>}

DeltaLines == {l \in [start : DeltaLineEnds, end : DeltaLineEnds] : l.start # l.end}

\* a rune on every coordinate of the 3 x 3 block
FullSigils ==
    [c \in (0..2) \X (0..2) |->
        [rune |-> RuneSeq[((X(c) + 3 * Y(c)) % 4) + 1],
         orb |-> OrbSeq[((X(c) + 3 * Y(c)) % 3) + 1]]]

\* the same with no rune at the triangle corner (2,1)
CornerlessSigils ==
    [c \in ((0..2) \X (0..2)) \ {<<2, 1>>} |-> FullSigils[c]]

DeltaPuzzles ==
    {[sigils |-> sg, lines |-> ls, cursor |-> <<0, 0>>] :
        sg \in {FullSigils, CornerlessSigils},
        ls \in LineListsUpTo(DeltaLines, MaxRuneLines)}

InitDelta ==
    /\ puzzle \in DeltaPuzzles
    /\ history = <<>>
    /\ loaded = puzzle
    /\ past = NoPuzzle
    /\ op = "new"
    /\ arg = NoArg
    /\ ret = FALSE
    /\ hlen = 0
    /\ prev = NoCall
    /\ sigma_frontier = <<>>
    /\ sigma_passed = <<>>

NextDelta == Active("Delta")

SpecDelta == InitDelta /\ [][NextDelta]_vars

\* the coordinates at which other branches or extends from self: they hold a
\* rune, are not the start of self and not the end of other
SharedCoordinates(self, other, sigils) ==
    {coordinates(self)[i] : i \in 2..Len(coordinates(self))}
        \cap {c \in DOMAIN sigils : Contains(Front(coordinates(other)), c)}

\* c is inside the triangle p q r, on no edge and no corner of it
StrictlyInside(c, p, q, r) ==
    /\ orientation(p, q, r) # "Collinear"
    /\ orientation(p, q, c) = orientation(p, q, r)
    /\ orientation(q, r, c) = orientation(p, q, r)
    /\ orientation(r, p, c) = orientation(p, q, r)

\* C19: Delta is true at a coordinate only if three drawn lines A, B, C, with
\* A extending B, B extending C and C extending A at coordinates that hold a
\* rune, form a non-degenerate triangle and the coordinate is strictly inside
\* it; it is false when the lines hold no such loop of three lines.
C19_DeltaOnlyInsideTriangle ==
    (op = "active" /\ arg = "Delta") =>
        \A coordinate \in Coords :
            ret[coordinate] =>
                \E a, b, c \in 1..Len(puzzle.lines) :
                    /\ Cardinality({a, b, c}) = 3
                    /\ \E p \in SharedCoordinates(puzzle.lines[a], puzzle.lines[b],
                                                  puzzle.sigils),
                          q \in SharedCoordinates(puzzle.lines[b], puzzle.lines[c],
                                                  puzzle.sigils),
                          r \in SharedCoordinates(puzzle.lines[c], puzzle.lines[a],
                                                  puzzle.sigils) :
                          StrictlyInside(coordinate, p, q, r)

\* ------------------------------------------------------------ line geometry

\* the lines compared lie on the block (0..GeoMax) x (0..GeoMax)
GeoMax == 2

GeoCoords == (0..GeoMax) \X (0..GeoMax)

\* degenerate lines included
GeoLines == [start : GeoCoords, end : GeoCoords]

\* a puzzle with one line drawn
InitGeo ==
    /\ puzzle \in {[DefaultPuzzle EXCEPT !.lines = <<line>>] : line \in GeoLines}
    /\ history = <<>>
    /\ loaded = puzzle
    /\ past = NoPuzzle
    /\ op = "new"
    /\ arg = NoArg
    /\ ret = FALSE
    /\ hlen = 0
    /\ prev = NoCall
    /\ sigma_frontier = <<>>
    /\ sigma_passed = <<>>

\* Puzzle::intersects_lines asks other_line.intersects(line) of a drawn line
\* and a candidate line
Intersects(line) ==
    /\ op = "new"
    /\ op' = "intersects"
    /\ arg' = <<puzzle.lines[1], line>>
    /\ ret' = intersects(puzzle.lines[1], line)
    /\ prev' = ThisCall
    /\ UNCHANGED <<sigma_frontier, sigma_passed>>
    /\ UNCHANGED <<puzzle, history, loaded, past, hlen>>

\* Line::coordinates asked of the drawn line (as Rune::active and
\* Line::extends ask it)
Coordinates ==
    /\ op = "new"
    /\ op' = "coordinates"
    /\ arg' = puzzle.lines[1]
    /\ ret' = coordinates(puzzle.lines[1])
    /\ prev' = ThisCall
    /\ UNCHANGED <<sigma_frontier, sigma_passed>>
    /\ UNCHANGED <<puzzle, history, loaded, past, hlen>>

NextGeo ==
    \/ \E line \in GeoLines : Intersects(line)
    \/ Coordinates

SpecGeo == InitGeo /\ [][NextGeo]_vars

Ends(line) == {line.start, line.end}

\* the other end of a line that has p as one end
OtherEnd(line, p) == IF line.start = p THEN line.end ELSE line.start

\* the segments from p to a and from p to b have a point besides p in common:
\* a and b lie on one ray from p
SameRay(p, a, b) ==
    /\ orientation(p, a, b) = "Collinear"
    /\ (X(a) - X(p)) * (X(b) - X(p)) + (Y(a) - Y(p)) * (Y(b) - Y(p)) > 0

\* two non-degenerate segments that share exactly one endpoint and no other
\* point
TouchAtOneEnd(self, other) ==
    /\ self.start # self.end
    /\ other.start # other.end
    /\ Cardinality(Ends(self) \cap Ends(other)) = 1
    /\ LET p == CHOOSE e \in Ends(self) \cap Ends(other) : TRUE
       IN  ~SameRay(p, OtherEnd(self, p), OtherEnd(other, p))

\* C20: Line::intersects is false for two non-degenerate segments that share
\* exactly one endpoint and have no other point in common, in either argument
\* order, whichever ends (start or end) are the shared ones.
C20_SharedEndpointNoIntersection ==
    (op = "intersects" /\ TouchAtOneEnd(arg[1], arg[2])) =>
        /\ ret = FALSE
        /\ intersects(arg[2], arg[1]) = FALSE

\* C20 witness: the segments touch end to end on one straight line, the end
\* of the first being the end of the second, and were found not to intersect.
C20_Witness ==
    /\ op = "intersects"
    /\ TouchAtOneEnd(arg[1], arg[2])
    /\ arg[1].end = arg[2].end
    /\ orientation(arg[1].start, arg[1].end, arg[2].start) = "Collinear"
    /\ ret = FALSE

NonDegenerate(line) == line.start # line.end

\* the segments cross at one point that is interior to both
ProperCross(self, other) ==
    LET o1 == orientation(self.start, self.end, other.start)
        o2 == orientation(self.start, self.end, other.end)
        o3 == orientation(other.start, other.end, self.start)
        o4 == orientation(other.start, other.end, self.end)
    IN  /\ "Collinear" \notin {o1, o2, o3, o4}
        /\ o1 # o2
        /\ o3 # o4

\* an endpoint of other is collinear with self and lies on it
EndpointOn(self, other) ==
    OnSegment(self, other.start) \/ OnSegment(self, other.end)

\* C21: Line::intersects is true whenever two segments properly cross at a
\* point interior to both, and whenever an endpoint of one is collinear with
\* the other and lies on it, except when they share a single endpoint and
\* nothing else (end-to-end collinear extension included).
C21_TrueOverlapIntersects ==
    (/\ op = "intersects"
     /\ NonDegenerate(arg[1])
     /\ NonDegenerate(arg[2])
     /\ ~TouchAtOneEnd(arg[1], arg[2])
     /\ \/ ProperCross(arg[1], arg[2])
        \/ EndpointOn(arg[1], arg[2])
        \/ EndpointOn(arg[2], arg[1])) => ret = TRUE

\* both segments lie on one straight line
Collinear(self, other) ==
    /\ orientation(self.start, self.end, other.start) = "Collinear"
    /\ orientation(self.start, self.end, other.end) = "Collinear"
    /\ orientation(other.start, other.end, self.start) = "Collinear"
    /\ orientation(other.start, other.end, self.end) = "Collinear"

\* the segments have more than one point in common: two different endpoints
\* lie on both
Overlap(self, other) ==
    \E p, q \in Ends(self) \cup Ends(other) :
        /\ p # q
        /\ OnSegment(self, p) /\ OnSegment(other, p)
        /\ OnSegment(self, q) /\ OnSegment(other, q)

\* C22: for two collinear segments Line::intersects is false when they only
\* touch end to end or are apart, and true when they share more than one
\* point, a segment and its own reversal included.
C22_CollinearSegments ==
    (/\ op = "intersects"
     /\ NonDegenerate(arg[1])
     /\ NonDegenerate(arg[2])
     /\ Collinear(arg[1], arg[2])) => (ret <=> Overlap(arg[1], arg[2]))

\* C22 witness: a segment of two steps compared with its own reversal
\* intersects it.
C22_Witness ==
    /\ op = "intersects"
    /\ arg[1] = [start |-> <<0, 0>>, end |-> <<2, 2>>]
    /\ arg[2] = [start |-> <<2, 2>>, end |-> <<0, 0>>]
    /\ ret = TRUE

\* the greatest number dividing a and b, found by trying every divisor
GreatestDivisor(a, b) ==
    IF a = 0 /\ b = 0 THEN 0
    ELSE CHOOSE d \in 1..Max(a, b) :
            /\ a % d = 0
            /\ b % d = 0
            /\ \A e \in (d + 1)..Max(a, b) : ~(a % e = 0 /\ b % e = 0)

\* C23: Line::coordinates() lists exactly the lattice points on the segment,
\* each once, start first and end last; it has gcd(|dx|,|dy|) + 1 elements
\* and consecutive elements differ by the displacement divided by that gcd,
\* whatever the signs; for start = end it is the single point.
C23_CoordinatesAreLatticePoints ==
    (op = "coordinates") =>
        LET dx == X(arg.end) - X(arg.start)
            dy == Y(arg.end) - Y(arg.start)
            g == GreatestDivisor(Abs(dx), Abs(dy))
        IN  /\ {ret[i] : i \in 1..Len(ret)} = {c \in GeoCoords : OnSegment(arg, c)}
            /\ Cardinality({ret[i] : i \in 1..Len(ret)}) = Len(ret)
            /\ Len(ret) = g + 1
            /\ ret[1] = arg.start
            /\ ret[Len(ret)] = arg.end
            /\ \A i \in 1..(Len(ret) - 1) :
                  /\ (X(ret[i + 1]) - X(ret[i])) * g = dx
                  /\ (Y(ret[i + 1]) - Y(ret[i])) * g = dy
            /\ (arg.start = arg.end) => ret = <<arg.start>>

\* C23 witness: a line going down and to the left over two steps was listed
\* with its interior point.
C23_Witness ==
    /\ op = "coordinates"
    /\ arg = [start |-> <<2, 2>>, end |-> <<0, 0>>]
    /\ ret = <<<<2, 2>>, <<1, 1>>, <<0, 0>>>>

\* C29: Line::intersects gives the same answer in both argument orders for
\* non-degenerate segments.
C29_IntersectsSymmetric ==
    (/\ op = "intersects"
     /\ NonDegenerate(arg[1])
     /\ NonDegenerate(arg[2])) => ret = intersects(arg[2], arg[1])

\* C29 witness: a properly crossing pair intersects, in an order in which the
\* first line was asked about the second.
C29_Witness ==
    /\ op = "intersects"
    /\ ProperCross(arg[1], arg[2])
    /\ ret = TRUE
    /\ intersects(arg[2], arg[1])

\* ------------------------------------------------ invariants of the lines

AllCircle(sigils) == \A c \in DOMAIN sigils : sigils[c].orb = "Circle"

NoOctogon(sigils) == \A c \in DOMAIN sigils : sigils[c].orb # "Octogon"

\* C24: in a puzzle whose runes all carry Circle orbs and that was loaded
\* with no lines, Line::intersects is false for every pair of different
\* lines drawn, in both orders.
C24_CircleLinesNeverIntersect ==
    (loaded.lines = <<>> /\ AllCircle(puzzle.sigils)) =>
        \A i, j \in 1..Len(puzzle.lines) :
            i # j => ~intersects(puzzle.lines[i], puzzle.lines[j])

\* C24 witness: in an all-Circle puzzle with two lines drawn, an input whose
\* line would cross the first line but not the newest was refused.
C24_Witness ==
    /\ op = "input"
    /\ ret = FALSE
    /\ loaded.lines = <<>>
    /\ AllCircle(puzzle.sigils)
    /\ Len(puzzle.lines) = 2
    /\ HasSigil(puzzle.sigils, arg)
    /\ intersects(puzzle.lines[1], Candidate(puzzle, arg))
    /\ ~intersects(puzzle.lines[2], Candidate(puzzle, arg))

NoDegenerateLine(p) == \A i \in 1..Len(p.lines) : p.lines[i].start # p.lines[i].end

\* C25: from a puzzle with no degenerate line, no sequence of inputs gives a
\* line whose start is its end: neither the appended line nor a line whose
\* end an Octogon redirect rewrites.
C25_NoDegenerateLine ==
    NoDegenerateLine(loaded) =>
        /\ NoDegenerateLine(puzzle)
        /\ \A i \in 1..Len(history) : NoDegenerateLine(history[i])

\* C25 witness: on an Octogon rune where a line ends, the input back to that
\* line's start, which would redirect the line onto its own start, was
\* refused.
C25_Witness ==
    /\ op = "input"
    /\ ret = FALSE
    /\ CursorOrb(puzzle) = "Octogon"
    /\ HasSigil(puzzle.sigils, arg)
    /\ \E i \in 1..Len(puzzle.lines) :
          puzzle.lines[i].end = puzzle.cursor /\ puzzle.lines[i].start = arg

\* C26: the history is as long as the live puzzle has lines more than the
\* puzzle last loaded or constructed, and the snapshot at index i (from 0, as
\* the Vec counts) has exactly i lines more than that puzzle.
C26_HistoryCountsLines ==
    /\ Len(history) = Len(puzzle.lines) - Len(loaded.lines)
    /\ \A i \in 1..Len(history) :
          Len(history[i].lines) = Len(loaded.lines) + (i - 1)

\* C26 witness: after inputs and an undo on a puzzle loaded with one line,
\* the history holds one snapshot and the live puzzle two lines.
C26_Witness ==
    /\ op = "input"
    /\ ret = TRUE
    /\ prev.op = "undo"
    /\ prev.ret = TRUE
    /\ Len(loaded.lines) = 1
    /\ Len(history) = 1
    /\ Len(puzzle.lines) = 2

\* C27: in a puzzle loaded with no lines, every line's start and end, ends
\* rewritten by an Octogon redirect included, holds a rune; once a line is
\* drawn the cursor is on a rune; and if the initial cursor holds no rune, no
\* input succeeds.
C27_LinesJoinRunes ==
    loaded.lines = <<>> =>
        /\ \A i \in 1..Len(puzzle.lines) :
              /\ HasSigil(puzzle.sigils, puzzle.lines[i].start)
              /\ HasSigil(puzzle.sigils, puzzle.lines[i].end)
        /\ (puzzle.lines # <<>> \/ history # <<>>) =>
              HasSigil(puzzle.sigils, puzzle.cursor)
        /\ ~HasSigil(loaded.sigils, loaded.cursor) =>
              /\ puzzle = loaded
              /\ history = <<>>
              /\ op = "input" => ret = FALSE

\* C27 witness: with a line drawn in a puzzle that has runes on some
\* coordinates only, an input to a coordinate without a rune was refused.
C27_Witness ==
    /\ op = "input"
    /\ ret = FALSE
    /\ loaded.lines = <<>>
    /\ puzzle.lines # <<>>
    /\ ~HasSigil(puzzle.sigils, arg)
    /\ HasSigil(puzzle.sigils, puzzle.cursor)

\* the lines of p form one directed chain that starts at from
IsChain(p, from) ==
    /\ p.lines # <<>> => p.lines[1].start = from
    /\ \A i \in 1..(Len(p.lines) - 1) : p.lines[i + 1].start = p.lines[i].end

\* C28: in a puzzle with no Octogon rune that was loaded with no lines, the
\* lines form one continuous directed chain from the initial cursor; and in
\* any puzzle only a successful input from an Octogon rune turns a chain into
\* lines that are no chain.
C28_LinesFormChain ==
    /\ []((loaded.lines = <<>> /\ NoOctogon(puzzle.sigils)) =>
             IsChain(puzzle, loaded.cursor))
    /\ [][(/\ loaded' = loaded
           /\ IsChain(puzzle, loaded.cursor)
           /\ ~IsChain(puzzle', loaded.cursor)) =>
              (/\ op' = "input"
               /\ ret' = TRUE
               /\ CursorOrb(puzzle) = "Octogon")]_vars

\* C28 witness: three lines were drawn in a puzzle of Diamond runes, the
\* third crossing the first, and they form a chain from the initial cursor.
C28_Witness ==
    /\ op = "input"
    /\ ret = TRUE
    /\ loaded.lines = <<>>
    /\ NoOctogon(puzzle.sigils)
    /\ Len(puzzle.lines) = 3
    /\ intersects(puzzle.lines[1], puzzle.lines[3])
    /\ IsChain(puzzle, loaded.cursor)

\* ------------------------------------------- the Sigma search, step by step

\* Rune::active (Sigma) reaches a line touching the coordinate:
\* frontier = vec![line.end], passed = Vec::new()
SigmaBegin(i) ==
    /\ op = "new"
    /\ i \in 1..Len(puzzle.lines)
    /\ op' = "sigma_loop"
    /\ arg' = puzzle.lines[i]
    /\ ret' = FALSE
    /\ sigma_frontier' = <<puzzle.lines[i].end>>
    /\ sigma_passed' = <<>>
    /\ prev' = ThisCall
    /\ UNCHANGED <<puzzle, history, loaded, past, hlen>>

\* one turn of the while loop with the check against `passed` left out
SigmaStep_NoPassed ==
    /\ op = "sigma_loop"
    /\ IF sigma_frontier = <<>>
       THEN /\ op' = "sigma_done"
            /\ ret' = FALSE
            /\ UNCHANGED <<sigma_frontier, sigma_passed>>
       ELSE LET frontier_coordinate == Last(sigma_frontier)
            IN  IF frontier_coordinate = arg.start
                THEN /\ op' = "sigma_done"
                     /\ ret' = TRUE
                     /\ sigma_frontier' = Front(sigma_frontier)
                     /\ UNCHANGED sigma_passed
                ELSE LET next_lines ==
                             SelectSeq(puzzle.lines,
                                 LAMBDA next_line :
                                     next_line.start = frontier_coordinate)
                     IN  /\ sigma_passed' = Append(sigma_passed, frontier_coordinate)
                         /\ sigma_frontier' =
                                Front(sigma_frontier) \o
                                [k \in 1..Len(next_lines) |-> next_lines[k].end]
                         /\ UNCHANGED <<op, ret>>
    /\ UNCHANGED <<puzzle, history, loaded, past, arg, hlen, prev>>

\* one turn of `while let Some(frontier_coordinate) = frontier.pop()`: the
\* loop ends on an empty frontier (the search of this line found nothing) or
\* on popping line.start (return true); otherwise the coordinate is passed
\* and the ends of the lines starting there, unless passed, are pushed
SigmaStep ==
    /\ op = "sigma_loop"
    /\ IF sigma_frontier = <<>>
       THEN /\ op' = "sigma_done"
            /\ ret' = FALSE
            /\ UNCHANGED <<sigma_frontier, sigma_passed>>
       ELSE LET frontier_coordinate == Last(sigma_frontier)
            IN  IF frontier_coordinate = arg.start
                THEN /\ op' = "sigma_done"
                     /\ ret' = TRUE
                     /\ sigma_frontier' = Front(sigma_frontier)
                     /\ UNCHANGED sigma_passed
                ELSE LET passed_now == Append(sigma_passed, frontier_coordinate)
                         next_lines ==
                             SelectSeq(puzzle.lines,
                                 LAMBDA next_line :
                                     /\ next_line.start = frontier_coordinate
                                     /\ ~Contains(passed_now, next_line.end))
                     IN  /\ sigma_passed' = passed_now
                         /\ sigma_frontier' =
                                Front(sigma_frontier) \o
                                [k \in 1..Len(next_lines) |-> next_lines[k].end]
                         /\ UNCHANGED <<op, ret>>
    /\ UNCHANGED <<puzzle, history, loaded, past, arg, hlen, prev>>

NextSigma ==
    \/ \E i \in 1..MaxRuneLines : SigmaBegin(i)
    \/ SigmaStep

\* the loop is sequential code: a turn that can be taken is taken
SpecSigma == InitRune /\ [][NextSigma]_vars /\ WF_vars(SigmaStep)

\* C30: the Sigma search ends for every list of lines (cycles that miss the
\* originating line's start, self-loops, lines sharing an end): a coordinate
\* that has been popped is never pushed again, and the frontier runs out or
\* the start is found.
C30_SigmaSearchTerminates ==
    /\ [][(op = "sigma_loop" /\ op' = "sigma_loop") =>
             \A k \in Len(sigma_frontier)..Len(sigma_frontier') :
                 ~Contains(sigma_passed', sigma_frontier'[k])]_vars
    /\ (op = "sigma_loop") ~> (op = "sigma_done")

\* C30 witness: the search ended without finding the start after passing two
\* coordinates of a cycle that misses the start of the originating line.
C30_Witness ==
    /\ op = "sigma_done"
    /\ ret = FALSE
    /\ Len(sigma_passed) = 2
    /\ \E i, j \in 1..Len(puzzle.lines) :
          /\ puzzle.lines[i].start = sigma_passed[1]
          /\ puzzle.lines[i].end = sigma_passed[2]
          /\ puzzle.lines[j].start = sigma_passed[2]
          /\ puzzle.lines[j].end = sigma_passed[1]

====
